---- MODULE Spec2Model ----
(***************************************************************************)
(* The release checker of src/src/index.js: main() fetches the latest      *)
(* release of utelle/SQLite3MultipleCiphers, selects the first asset whose *)
(* name ends in '-wasm.zip', downloads it to <baseDir>/<asset name>,       *)
(* unpacks it to <baseDir>/temp-extract and copies the jswasm directory    *)
(* to <baseDir>/sqlite-wasm/jswasm.                                        *)
(*                                                                         *)
(* Strings are sequences of tokens (substrings), so that endsWith and the  *)
(* exact comparison with 'jswasm' are computed.  A path is the sequence of *)
(* its components below baseDir.  The file system is a function from the   *)
(* existing paths to nodes.  One process runs at a time; the file system,  *)
(* the release the server holds and the archive it serves outlive it.      *)
(***************************************************************************)
EXTENDS Integers, Sequences, FiniteSets, TLC

\* ------------------------------------------------------------------ bounds
\* Longest asset list of a release.
MaxAssets == 3
\* Most 3xx responses with a Location header the server gives to one download.
MaxRedirects == 2
\* Most runs of the tool over the same base directory.
MaxRuns == 2

\* ----------------------------------------------------------------- strings
\* '-wasm.zip'
WasmSuffix == <<"-wasm", ".zip">>
\* 'jswasm'
Jswasm == <<"jswasm">>
\* 'temp-extract', relative to path.dirname(destinationPath) = baseDir
TempDir == << <<"temp-extract">> >>
\* 'sqlite-wasm', relative to baseDir
ExtractDir == << <<"sqlite-wasm">> >>
\* path.join(destinationPath, 'jswasm')
JswasmDestDir == ExtractDir \o <<Jswasm>>

\* A mutant of EndsWith: String.prototype.includes instead of endsWith.
EndsWithAsIncludes(s, suffix) ==
    \E k \in 1..Len(s) :
        /\ k + Len(suffix) - 1 <= Len(s)
        /\ SubSeq(s, k, k + Len(suffix) - 1) = suffix

\* String.prototype.endsWith
EndsWith(s, suffix) ==
    /\ Len(s) >= Len(suffix)
    /\ SubSeq(s, Len(s) - Len(suffix) + 1, Len(s)) = suffix

\* ------------------------------------------------------------- file system
DirNode == [kind |-> "dir", data |-> <<>>]
FileNode(d) == [kind |-> "file", data |-> d]
EmptyFs == [p \in {} |-> DirNode]

IsPrefix(p, q) == Len(p) <= Len(q) /\ SubSeq(q, 1, Len(p)) = p
IsDir(f, p) == p \in DOMAIN f /\ f[p].kind = "dir"
IsFile(f, p) == p \in DOMAIN f /\ f[p].kind = "file"
Prefixes(p) == {SubSeq(p, 1, k) : k \in 1..Len(p)}

\* fs.ensureDir: creates the directory and its missing ancestors; throws when
\* a component of the path is a file.
EnsureDir(f, p) ==
    IF \E q \in Prefixes(p) : IsFile(f, q)
    THEN [ok |-> FALSE, fs |-> f]
    ELSE [ok |-> TRUE,
          fs |-> [q \in DOMAIN f \cup Prefixes(p) |->
                     IF q \in DOMAIN f THEN f[q] ELSE DirNode]]

\* fs.remove: deletes the path and everything below it; silent when absent.
Remove(f, p) == [q \in {r \in DOMAIN f : ~IsPrefix(p, r)} |-> f[q]]

\* The order in which a directory listing returns names.
ListingOrder ==
    << <<"a">>, <<"b">>, <<"jswasm", "-old">>, Jswasm, <<"sub">>,
       <<"x", ".wasm">>, <<"y", ".mjs">>, <<"z", ".js">> >>

\* fs.readdir: the names of the entries of dir, in listing order.
Readdir(f, dir) ==
    SelectSeq(ListingOrder, LAMBDA n : (dir \o <<n>>) \in DOMAIN f)

\* A mutant of Copy: fs.copy with overwrite: false, which keeps a file that
\* is already at the destination.
CopyKeepExisting(f, src, dst) ==
    LET below == {q \in DOMAIN f : IsPrefix(src, q)}
        Target(q) == dst \o SubSeq(q, Len(src) + 1, Len(q))
        parent == EnsureDir(f, SubSeq(dst, 1, Len(dst) - 1))
        targets == {Target(q) : q \in below} \ DOMAIN f
        Source(t) == CHOOSE q \in below : Target(q) = t
    IN  IF ~parent.ok
        THEN [ok |-> FALSE, fs |-> f]
        ELSE [ok |-> TRUE,
              fs |-> [t \in DOMAIN parent.fs \cup targets |->
                         IF t \in targets THEN f[Source(t)] ELSE parent.fs[t]]]

\* fs.copy(src, dst) of fs-extra: a file overwrites a file, a directory is
\* merged into a directory, recursively; it throws when a file would replace
\* a directory or a directory a file.  parent(dst) is created if missing.
Copy(f, src, dst) ==
    LET below == {q \in DOMAIN f : IsPrefix(src, q)}
        Target(q) == dst \o SubSeq(q, Len(src) + 1, Len(q))
        clash == \E q \in below :
                    /\ Target(q) \in DOMAIN f
                    /\ f[Target(q)].kind # f[q].kind
        parent == EnsureDir(f, SubSeq(dst, 1, Len(dst) - 1))
        targets == {Target(q) : q \in below}
        Source(t) == CHOOSE q \in below : Target(q) = t
    IN  IF clash \/ ~parent.ok
        THEN [ok |-> FALSE, fs |-> f]
        ELSE [ok |-> TRUE,
              fs |-> [t \in DOMAIN parent.fs \cup targets |->
                         IF t \in targets THEN f[Source(t)] ELSE parent.fs[t]]]

Null == <<>>

RECURSIVE FindJswasmDirectory(_, _)
RECURSIVE SearchSubdirectories(_, _, _, _)
\* The loop of findJswasmDirectory over the listing, from item i on.
SearchSubdirectories(f, dir, items, i) ==
    IF i > Len(items) THEN Null
    ELSE IF IsDir(f, dir \o <<items[i]>>)
         THEN LET result == FindJswasmDirectory(f, dir \o <<items[i]>>)
              IN  IF result # Null THEN result
                  ELSE SearchSubdirectories(f, dir, items, i + 1)
         ELSE SearchSubdirectories(f, dir, items, i + 1)

\* A mutant of findJswasmDirectory: the subdirectories are searched before
\* the listing of dir itself is looked at.
FindJswasmDescendFirst(f, dir) ==
    LET items == Readdir(f, dir)
        result == SearchSubdirectories(f, dir, items, 1)
    IN  IF result # Null THEN result
        ELSE IF IsDir(f, dir \o <<Jswasm>>) THEN dir \o <<Jswasm>>
        ELSE Null
\* findJswasmDirectory: a directory named exactly 'jswasm' in the listing of
\* dir wins; otherwise the subdirectories are searched in listing order.
FindJswasmDirectory(f, dir) ==
    LET items == Readdir(f, dir)
    IN  IF \E i \in 1..Len(items) :
               IsDir(f, dir \o <<items[i]>>) /\ items[i] = Jswasm
        THEN dir \o <<Jswasm>>
        ELSE SearchSubdirectories(f, dir, items, 1)

\* ---------------------------------------------------------------- archives
\* The archives the server may serve.
ArchiveIds == 1..6

a == <<"a">>
b == <<"b">>
sub == <<"sub">>
jswasmOld == <<"jswasm", "-old">>
xWasm == <<"x", ".wasm">>
yMjs == <<"y", ".mjs">>
zJs == <<"z", ".js">>

\* The entries of archive k: path, kind and content of each.
ArchiveEntries(k) ==
    CASE k = 1 -> { <<<<a>>, "dir", <<>>>>, <<<<a, b>>, "dir", <<>>>>,
                    <<<<a, b, Jswasm>>, "dir", <<>>>>,
                    <<<<a, b, Jswasm, xWasm>>, "file", <<11>>>>,
                    <<<<a, b, Jswasm, yMjs>>, "file", <<12>>>> }
      [] k = 2 -> { <<<<a>>, "dir", <<>>>>, <<<<a, Jswasm>>, "dir", <<>>>>,
                    <<<<a, Jswasm, zJs>>, "file", <<22>>>>,
                    <<<<Jswasm>>, "dir", <<>>>>,
                    <<<<Jswasm, xWasm>>, "file", <<21>>>> }
      [] k = 3 -> { <<<<a>>, "dir", <<>>>>, <<<<a, Jswasm>>, "dir", <<>>>>,
                    <<<<a, Jswasm, xWasm>>, "file", <<31>>>>,
                    <<<<b>>, "dir", <<>>>>, <<<<b, Jswasm>>, "dir", <<>>>>,
                    <<<<b, Jswasm, yMjs>>, "file", <<32>>>> }
      [] k = 4 -> { <<<<a>>, "dir", <<>>>>,
                    <<<<a, xWasm>>, "file", <<41>>>>,
                    <<<<jswasmOld>>, "dir", <<>>>>,
                    <<<<jswasmOld, yMjs>>, "file", <<42>>>>,
                    <<<<b>>, "dir", <<>>>>,
                    <<<<b, Jswasm>>, "file", <<43>>>> }
      [] k = 5 -> { <<<<Jswasm>>, "dir", <<>>>>,
                    <<<<Jswasm, xWasm>>, "file", <<51>>>>,
                    <<<<Jswasm, sub>>, "dir", <<>>>>,
                    <<<<Jswasm, sub, zJs>>, "file", <<52>>>> }
      [] OTHER -> { <<<<a>>, "dir", <<>>>>, <<<<a, Jswasm>>, "dir", <<>>>> }

\* The bytes of the zip file of archive k, in the chunks the server sends.
ZipBytes(k) == <<k, k>>

\* extract-zip reading a file: the entries, or a throw when it is no whole zip.
Unzip(data) ==
    IF Len(data) = 2 /\ data[1] = data[2] /\ data[1] \in ArchiveIds
    THEN [ok |-> TRUE, entries |-> ArchiveEntries(data[1])]
    ELSE [ok |-> FALSE, entries |-> {}]

\* extract(zipPath, {dir}): every entry is written below dir.
Extract(f, zipPath, dir) ==
    LET z == IF IsFile(f, zipPath) THEN Unzip(f[zipPath].data)
             ELSE [ok |-> FALSE, entries |-> {}]
        written == {dir \o e[1] : e \in z.entries}
        Entry(p) == CHOOSE e \in z.entries : dir \o e[1] = p
    IN  IF ~z.ok
        THEN [ok |-> FALSE, fs |-> f]
        ELSE [ok |-> TRUE,
              fs |-> [p \in DOMAIN f \cup written |->
                         IF p \in written
                         THEN [kind |-> Entry(p)[2], data |-> Entry(p)[3]]
                         ELSE f[p]]]

\* The body of a download that is no zip file.
CorruptBytes == <<0, 0>>
\* What the server may serve as the asset's content.
ServedBodies == {ZipBytes(k) : k \in ArchiveIds} \cup {CorruptBytes}
\* The served content before the server has been asked for it.
Unserved == <<>>

\* ------------------------------------------------------------- the release
\* The names an asset may have.
AssetNames ==
    { <<"mc", "-wasm", ".zip">>, <<"mc", "-v2", "-wasm", ".zip">>,
      <<"mc", "-wasm", ".zip", ".sig">> }

HttpsUrl(i) == [scheme |-> "https:", host |-> "github.com", asset |-> i]
NoUrl == [scheme |-> "", host |-> "", asset |-> 0]
Asset(n, i) == [name |-> n, browser_download_url |-> HttpsUrl(i)]
NoAsset == [name |-> <<>>, browser_download_url |-> NoUrl]

\* Asset lists: names are unique within a release, the i-th asset has URL i.
AssetLists ==
    UNION { { [i \in 1..n |-> Asset(names[i], i)] :
                names \in {ns \in [1..n -> AssetNames] :
                              \A i, j \in 1..n : ns[i] = ns[j] => i = j} } :
            n \in 0..MaxAssets }

\* A parsed JSON document: the fields main() and fetchLatestRelease read.
Json(hasAssets, assets, message) ==
    [hasAssets |-> hasAssets, assets |-> assets, message |-> message]
NoJson == Json(FALSE, <<>>, "undefined")
\* The release documents: with an asset list, or without the assets field.
Releases == {Json(TRUE, l, "undefined") : l \in AssetLists} \cup {NoJson}
\* The latest release before the server has been asked for it.
Undecided == Json(FALSE, <<>>, "undecided")

\* Response bodies of the API, in the chunks the server sends.
ReleaseBody == <<"{release", "}">>
MessageBody == <<"{message", "}">>
ObjectBody == <<"{", "}">>
HtmlBody == <<"<html>", "</html>">>
ApiBodies == {ReleaseBody, MessageBody, ObjectBody, HtmlBody}
ApiStatuses == {200, 403, 404}
RateLimitHeaders == {"0", "59", "absent"}

\* JSON.parse(data): the document, or a throw; doc is the release the server
\* holds, which ReleaseBody spells out.
JSONParse(data, doc) ==
    CASE data = ReleaseBody -> [ok |-> TRUE, value |-> doc]
      [] data = MessageBody ->
            [ok |-> TRUE, value |-> Json(FALSE, <<>>, "Not Found")]
      [] data = ObjectBody -> [ok |-> TRUE, value |-> NoJson]
      [] OTHER -> [ok |-> FALSE, value |-> NoJson]

\* ------------------------------------------------------- errors, promises
Err(text, status, detail) ==
    [text |-> text, status |-> status, detail |-> detail]
NoErr == Err("", 0, "")
RateLimitText ==
    "GitHub API rate limit exceeded. Use GITHUB_TOKEN environment variable to increase the limit."

Pending == [state |-> "pending", value |-> NoJson, error |-> NoErr]
\* resolve(v) and reject(e) of a promise: the first one settles it, any
\* later one does nothing.
Resolve(p, v) ==
    IF p.state = "pending"
    THEN [state |-> "resolved", value |-> v, error |-> NoErr]
    ELSE p
Reject(p, e) ==
    IF p.state = "pending"
    THEN [state |-> "rejected", value |-> NoJson, error |-> e]
    ELSE p

Line(text) == [text |-> text, err |-> NoErr]
ErrorLine(e) == [text |-> "Error: ", err |-> e]

\* ------------------------------------------------------------------- state
VARIABLES
    latest,         \* the release document the API serves (Undecided at first)
    served,         \* the bytes the asset URL serves (Unserved at first)
    fs,             \* the file system below baseDir
    fs0,            \* the file system when the running process started
    prevFull,       \* the previous process ran the pipeline to its end
    runs,           \* the number of processes started so far
    pc,             \* where main() stands
    exitCode,       \* the exit status, once pc = "exited"
    log,            \* the lines written to the console by this process
    fetch,          \* the request of fetchLatestRelease and its response
    fetchP,         \* the promise fetchLatestRelease returned
    selectedAsset,  \* main's selectedAsset
    dl,             \* the requests of downloadFile and the response piped
    dlP,            \* the promise downloadFile returned
    unlinkPending,  \* an fs.unlink(targetPath) was started and has not run
    ex              \* the locals of extractWasmFiles and its return value

vars ==
    <<latest, served, fs, fs0, prevFull, runs, pc, exitCode, log, fetch, fetchP,
      selectedAsset, dl, dlP, unlinkPending, ex>>

envVars == <<latest, served>>
historyVars == <<fs0, prevFull, runs>>
fetchVars == <<fetch, fetchP>>
dlVars == <<dl, dlP, unlinkPending>>

FetchIdle == [phase |-> "idle", statusCode |-> 0, ratelimit |-> "absent",
              rest |-> <<>>, data |-> <<>>]
NoRequest == [url |-> NoUrl, via |-> ""]
\* gets counts the requests issued; first and request are the initial one and
\* the one last issued.
DlIdle == [phase |-> "idle", gets |-> 0, first |-> NoRequest,
           request |-> NoRequest, statusCode |-> 0, rest |-> <<>>]
ExIdle == [returned |-> FALSE, result |-> FALSE, jswasmPath |-> Null,
           files |-> <<>>, i |-> 0]

\* What baseDir may hold before the first run: nothing, an older copy of the
\* output, or an output directory in which x.wasm is a directory.
InitialFileSystems ==
    { EmptyFs,
      [p \in Prefixes(JswasmDestDir \o <<xWasm>>) |->
          IF p = JswasmDestDir \o <<xWasm>> THEN FileNode(<<1>>) ELSE DirNode],
      [p \in Prefixes(JswasmDestDir \o <<xWasm>>) |-> DirNode] }

Init ==
    /\ latest = Undecided
    /\ served = Unserved
    /\ fs \in InitialFileSystems
    /\ fs0 = fs
    /\ prevFull = FALSE
    /\ runs = 1
    /\ pc = "start"
    /\ exitCode = 0
    /\ log = <<>>
    /\ fetch = FetchIdle
    /\ fetchP = Pending
    /\ selectedAsset = NoAsset
    /\ dl = DlIdle
    /\ dlP = Pending
    /\ unlinkPending = FALSE
    /\ ex = ExIdle

\* ------------------------------------------------------ fetchLatestRelease
\* main() up to its first await: fetchLatestRelease issues https.get.
MainStart ==
    /\ pc = "start"
    /\ pc' = "await_fetch"
    /\ log' = Append(log, Line("Fetching latest release information"))
    /\ fetch' = [FetchIdle EXCEPT !.phase = "sent"]
    /\ UNCHANGED <<envVars, historyVars, fs, exitCode, fetchP, selectedAsset,
                   dlVars, ex>>

\* The request's 'error' event: no response arrives, or the socket fails
\* while the body is received (no 'end' follows).
FetchRequestError ==
    /\ fetch.phase \in {"sent", "receiving"}
    /\ \E cause \in {"ENOTFOUND", "ECONNRESET"} :
          fetchP' = Reject(fetchP, Err("Request failed", 0, cause))
    /\ fetch' = [FetchIdle EXCEPT !.phase = "done"]
    /\ UNCHANGED <<envVars, historyVars, fs, pc, exitCode, log, selectedAsset,
                   dlVars, ex>>

\* The response callback: data = '' and the two listeners are registered.
\* A 200 response with ReleaseBody fixes the release the server holds.
FetchResponse ==
    /\ fetch.phase = "sent"
    /\ \E status \in ApiStatuses, rl \in RateLimitHeaders, body \in ApiBodies :
          /\ fetch' = [phase |-> "receiving", statusCode |-> status,
                       ratelimit |-> rl, rest |-> body, data |-> <<>>]
          /\ IF body = ReleaseBody /\ latest = Undecided
             THEN latest' \in Releases
             ELSE latest' = latest
    /\ UNCHANGED <<served, historyVars, fs, pc, exitCode, log, fetchP,
                   selectedAsset, dlVars, ex>>

\* res.on('data'): data += chunk
FetchData ==
    /\ fetch.phase = "receiving"
    /\ fetch.rest # <<>>
    /\ fetch' = [fetch EXCEPT !.data = @ \o <<Head(fetch.rest)>>,
                              !.rest = Tail(@)]
    /\ UNCHANGED <<envVars, historyVars, fs, pc, exitCode, log, fetchP,
                   selectedAsset, dlVars, ex>>

\* The connection is closed before the end of the body: the response emits
\* neither 'end' nor, for want of a listener, 'error', and the request emits
\* no 'error' once a response has begun.  The promise stays pending.
FetchAborted ==
    /\ fetch.phase = "receiving"
    /\ fetch.rest # <<>>
    /\ fetch' = [FetchIdle EXCEPT !.phase = "aborted"]
    /\ UNCHANGED <<envVars, historyVars, fs, pc, exitCode, log, fetchP,
                   selectedAsset, dlVars, ex>>

\* A mutant of ResponseEnd: a 403 is taken for the rate limit whatever the
\* x-ratelimit-remaining header says.
ResponseEndAny403(p, statusCode, ratelimit, data, doc) ==
    LET parsed == JSONParse(data, doc)
    IN  IF statusCode = 200
        THEN IF parsed.ok THEN Resolve(p, parsed.value)
             ELSE Reject(p, Err("Failed to parse response", 0, "SyntaxError"))
        ELSE IF statusCode = 403
        THEN Reject(p, Err(RateLimitText, 0, ""))
        ELSE IF parsed.ok
             THEN Reject(p, Err("API request failed with status code",
                                statusCode, parsed.value.message))
             ELSE Reject(p, Err("API request failed with status code",
                                statusCode, ""))

\* The 'end' listener of the response: settles the promise by the status.
ResponseEnd(p, statusCode, ratelimit, data, doc) ==
    LET parsed == JSONParse(data, doc)
    IN  IF statusCode = 200
        THEN IF parsed.ok THEN Resolve(p, parsed.value)
             ELSE Reject(p, Err("Failed to parse response", 0, "SyntaxError"))
        ELSE IF statusCode = 403 /\ ratelimit = "0"
        THEN Reject(p, Err(RateLimitText, 0, ""))
        ELSE IF parsed.ok
             THEN Reject(p, Err("API request failed with status code",
                                statusCode, parsed.value.message))
             ELSE Reject(p, Err("API request failed with status code",
                                statusCode, ""))

\* res.on('end')
FetchEnd ==
    /\ fetch.phase = "receiving"
    /\ fetch.rest = <<>>
    /\ fetchP' = ResponseEnd(fetchP, fetch.statusCode, fetch.ratelimit,
                             fetch.data, latest)
    /\ fetch' = [FetchIdle EXCEPT !.phase = "done"]
    /\ UNCHANGED <<envVars, historyVars, fs, pc, exitCode, log, selectedAsset,
                   dlVars, ex>>

\* -------------------------------------------------------------------- main
\* release.assets.filter(asset => asset.name.endsWith('-wasm.zip'))
WasmAssets(assets) ==
    SelectSeq(assets, LAMBDA asset : EndsWith(asset.name, WasmSuffix))

\* A mutant of SelectAsset: the last matching asset.
SelectLastAsset(wasmAssets) == wasmAssets[Len(wasmAssets)]

\* const selectedAsset = wasmAssets[0]
SelectAsset(wasmAssets) == wasmAssets[1]

\* path.join(baseDir, selectedAsset.name)
ZipPath(asset) == <<asset.name>>

\* https.get or http.get, by the scheme of the URL
RequestFn(url) == IF url.scheme = "https:" THEN "https.get" ELSE "http.get"
Request(url) == [url |-> url, via |-> RequestFn(url)]

\* The catch of main(): the error is logged and the process exits with 1.
MainCatch ==
    /\ \/ pc = "await_fetch" /\ fetchP.state = "rejected"
          /\ log' = Append(log, ErrorLine(fetchP.error))
       \/ pc = "await_download" /\ dlP.state = "rejected"
          /\ log' = Append(log, ErrorLine(dlP.error))
    /\ pc' = "exited"
    /\ exitCode' = 1
    /\ UNCHANGED <<envVars, historyVars, fs, fetchVars, selectedAsset,
                   dlVars, ex>>

\* main() after fetchLatestRelease resolved, for a release without assets:
\* the assets field is missing or the list is empty.
MainNoAssets ==
    /\ pc = "await_fetch" /\ fetchP.state = "resolved"
    /\ ~(fetchP.value.hasAssets /\ Len(fetchP.value.assets) > 0)
    /\ log' = log \o <<Line("WASM Build Files:"),
                       Line("No assets found for this release.")>>
    /\ pc' = "exited"
    /\ exitCode' = 0
    /\ UNCHANGED <<envVars, historyVars, fs, fetchVars, selectedAsset,
                   dlVars, ex>>

\* main() after fetchLatestRelease resolved, when no asset name matches.
MainNoWasm ==
    /\ pc = "await_fetch" /\ fetchP.state = "resolved"
    /\ fetchP.value.hasAssets /\ Len(fetchP.value.assets) > 0
    /\ Len(WasmAssets(fetchP.value.assets)) = 0
    /\ log' = log \o <<Line("WASM Build Files:"),
                       Line("No WASM build files found in this release.")>>
    /\ pc' = "exited"
    /\ exitCode' = 0
    /\ UNCHANGED <<envVars, historyVars, fs, fetchVars, selectedAsset,
                   dlVars, ex>>

\* main() after fetchLatestRelease resolved, when an asset matches: the first
\* is selected and downloadFile issues its initial request.
MainDownload ==
    /\ pc = "await_fetch" /\ fetchP.state = "resolved"
    /\ fetchP.value.hasAssets /\ Len(fetchP.value.assets) > 0
    /\ Len(WasmAssets(fetchP.value.assets)) > 0
    /\ LET asset == SelectAsset(WasmAssets(fetchP.value.assets))
       IN  /\ selectedAsset' = asset
           /\ dl' = [DlIdle EXCEPT
                        !.phase = "requested",
                        !.gets = 1,
                        !.first = Request(asset.browser_download_url),
                        !.request = Request(asset.browser_download_url)]
    /\ log' = log \o <<Line("WASM Build Files:"), Line("Downloading")>>
    /\ pc' = "await_download"
    /\ UNCHANGED <<envVars, historyVars, fs, exitCode, fetchVars, dlP,
                   unlinkPending, ex>>

\* ------------------------------------------------------------ downloadFile
DownloadStatuses == {200, 302, 404}
\* The Location header of a response: absent, or an absolute URL.
Locations(asset) ==
    { NoUrl,
      [scheme |-> "https:", host |-> "cdn", asset |-> asset],
      [scheme |-> "http:", host |-> "cdn", asset |-> asset] }

\* The redirect test of handleResponse, the handler of every request.
IsRedirect(statusCode, location) ==
    statusCode >= 300 /\ statusCode < 400 /\ location # NoUrl

\* The 'error' event of a request: the initial one, or one issued for a
\* redirect.  fs.unlink is started and the promise rejected.
DlRequestError ==
    /\ dl.phase = "requested"
    /\ unlinkPending' = TRUE
    /\ dlP' = Reject(dlP, Err(IF dl.gets = 1 THEN "Download error"
                              ELSE "Redirect request failed", 0, "ECONNRESET"))
    /\ dl' = [dl EXCEPT !.phase = "failed"]
    /\ UNCHANGED <<envVars, historyVars, fs, pc, exitCode, log, fetchVars,
                   selectedAsset, ex>>

\* handleResponse on a redirect: the request is issued again for Location.
DlRedirect ==
    /\ dl.phase = "requested"
    /\ dl.gets <= MaxRedirects
    /\ \E status \in DownloadStatuses,
          location \in Locations(selectedAsset.browser_download_url.asset) :
          /\ IsRedirect(status, location)
          /\ dl' = [dl EXCEPT !.gets = @ + 1, !.request = Request(location)]
          /\ log' = Append(log, Line("Redirecting to: "))
    /\ UNCHANGED <<envVars, historyVars, fs, pc, exitCode, fetchVars,
                   selectedAsset, dlP, unlinkPending, ex>>

\* handleResponse on a status other than 200 that is no redirect.
DlBadStatus ==
    /\ dl.phase = "requested"
    /\ \E status \in DownloadStatuses,
          location \in Locations(selectedAsset.browser_download_url.asset) :
          /\ ~IsRedirect(status, location)
          /\ status # 200
          /\ dl' = [dl EXCEPT !.phase = "failed", !.statusCode = status]
          /\ dlP' = Reject(dlP, Err("Failed to download file", status, ""))
    /\ UNCHANGED <<envVars, historyVars, fs, pc, exitCode, log, fetchVars,
                   selectedAsset, unlinkPending, ex>>

\* handleResponse on 200: createWriteStream opens the target (an existing
\* file is truncated) and the response is piped into it.
DlOk ==
    /\ dl.phase = "requested"
    /\ \E location \in Locations(selectedAsset.browser_download_url.asset) :
          ~IsRedirect(200, location)
    /\ IF served = Unserved THEN served' \in ServedBodies
       ELSE served' = served
    /\ dl' = [dl EXCEPT !.phase = "piping", !.statusCode = 200,
                        !.rest = served']
    /\ fs' = [p \in DOMAIN fs \cup {ZipPath(selectedAsset)} |->
                 IF p = ZipPath(selectedAsset) THEN FileNode(<<>>) ELSE fs[p]]
    /\ UNCHANGED <<latest, historyVars, pc, exitCode, log, fetchVars,
                   selectedAsset, dlP, unlinkPending, ex>>

\* response.pipe(file): a chunk of the body is written to the target.
DlData ==
    /\ dl.phase = "piping"
    /\ dl.rest # <<>>
    /\ IsFile(fs, ZipPath(selectedAsset))
    /\ fs' = [fs EXCEPT ![ZipPath(selectedAsset)].data =
                            @ \o <<Head(dl.rest)>>]
    /\ dl' = [dl EXCEPT !.rest = Tail(@)]
    /\ UNCHANGED <<envVars, historyVars, pc, exitCode, log, fetchVars,
                   selectedAsset, dlP, unlinkPending, ex>>

\* file.on('finish'): the body ended and was written; the promise resolves.
DlFinish ==
    /\ dl.phase = "piping"
    /\ dl.rest = <<>>
    /\ dl' = [dl EXCEPT !.phase = "finished"]
    /\ log' = Append(log, Line("Download completed: "))
    /\ dlP' = Resolve(dlP, NoJson)
    /\ UNCHANGED <<envVars, historyVars, fs, pc, exitCode, fetchVars,
                   selectedAsset, unlinkPending, ex>>

\* file.on('error'): a write failed; fs.unlink is started (its callback is
\* empty and nothing waits for it) and the promise is rejected.
DlWriteError ==
    /\ dl.phase = "piping"
    /\ dl' = [dl EXCEPT !.phase = "failed"]
    /\ unlinkPending' = TRUE
    /\ dlP' = Reject(dlP, Err("File write error", 0, "ENOSPC"))
    /\ UNCHANGED <<envVars, historyVars, fs, pc, exitCode, log, fetchVars,
                   selectedAsset, ex>>

\* The response is aborted before its end.  No listener of handleResponse
\* hears of it: the file is never ended, the promise never settled and
\* main() stays suspended at its await.
DlAborted ==
    /\ dl.phase = "piping"
    /\ dl.rest # <<>>
    /\ dl' = [dl EXCEPT !.phase = "stalled"]
    /\ UNCHANGED <<envVars, historyVars, fs, pc, exitCode, log, fetchVars,
                   selectedAsset, dlP, unlinkPending, ex>>

\* A started fs.unlink(targetPath) runs: the file is deleted if it exists.
\* It runs only while the process lives: process.exit does not wait for it.
UnlinkDone ==
    /\ unlinkPending
    /\ pc # "exited"
    /\ unlinkPending' = FALSE
    /\ fs' = IF IsFile(fs, ZipPath(selectedAsset))
             THEN Remove(fs, ZipPath(selectedAsset))
             ELSE fs
    /\ UNCHANGED <<envVars, historyVars, pc, exitCode, log, fetchVars,
                   selectedAsset, dl, dlP, ex>>

\* -------------------------------------------------------- extractWasmFiles
\* The catch of extractWasmFiles: the error is logged and false returned.
ExCatch(f) ==
    /\ fs' = f
    /\ log' = Append(log, Line("Extraction failed: "))
    /\ ex' = [ex EXCEPT !.returned = TRUE, !.result = FALSE]
    /\ pc' = "ex_returned"

\* main() after downloadFile resolved: extractWasmFiles is called and runs
\* to its first await, fs.ensureDir(tempDir).
ExEnsureTemp ==
    /\ pc = "await_download" /\ dlP.state = "resolved"
    /\ LET r == EnsureDir(fs, TempDir)
       IN  IF r.ok
           THEN /\ fs' = r.fs
                /\ log' = Append(log, Line("Extracting to 'sqlite-wasm' directory..."))
                /\ pc' = "ex_unzip"
                /\ ex' = ex
           ELSE ExCatch(r.fs)
    /\ UNCHANGED <<envVars, historyVars, exitCode, fetchVars, selectedAsset,
                   dlVars>>

\* await extract(zipPath, { dir: path.resolve(tempDir) })
ExUnzip ==
    /\ pc = "ex_unzip"
    /\ LET r == Extract(fs, ZipPath(selectedAsset), TempDir)
       IN  IF r.ok
           THEN /\ fs' = r.fs
                /\ pc' = "ex_find"
                /\ UNCHANGED <<log, ex>>
           ELSE ExCatch(r.fs)
    /\ UNCHANGED <<envVars, historyVars, exitCode, fetchVars, selectedAsset,
                   dlVars>>

\* const jswasmPath = await findJswasmDirectory(tempDir)
ExFind ==
    /\ pc = "ex_find"
    /\ LET jswasmPath == FindJswasmDirectory(fs, TempDir)
       IN  /\ ex' = [ex EXCEPT !.jswasmPath = jswasmPath]
           /\ IF jswasmPath # Null
              THEN /\ log' = Append(log, Line("Found jswasm directory: "))
                   /\ pc' = "ex_ensureDest"
              ELSE /\ log' = Append(log,
                         Line("Could not find jswasm directory in the extracted files"))
                   /\ pc' = "ex_notFound"
    /\ UNCHANGED <<envVars, historyVars, fs, exitCode, fetchVars,
                   selectedAsset, dlVars>>

\* The else branch: await fs.remove(tempDir); return false
ExNotFound ==
    /\ pc = "ex_notFound"
    /\ fs' = Remove(fs, TempDir)
    /\ ex' = [ex EXCEPT !.returned = TRUE, !.result = FALSE]
    /\ pc' = "ex_returned"
    /\ UNCHANGED <<envVars, historyVars, exitCode, log, fetchVars,
                   selectedAsset, dlVars>>

\* await fs.ensureDir(jswasmDestDir)
ExEnsureDest ==
    /\ pc = "ex_ensureDest"
    /\ LET r == EnsureDir(fs, JswasmDestDir)
       IN  IF r.ok
           THEN /\ fs' = r.fs
                /\ pc' = "ex_readdir"
                /\ UNCHANGED <<log, ex>>
           ELSE ExCatch(r.fs)
    /\ UNCHANGED <<envVars, historyVars, exitCode, fetchVars, selectedAsset,
                   dlVars>>

\* const files = await fs.readdir(jswasmPath)
ExReaddir ==
    /\ pc = "ex_readdir"
    /\ ex' = [ex EXCEPT !.files = Readdir(fs, ex.jswasmPath), !.i = 1]
    /\ pc' = "ex_copy"
    /\ UNCHANGED <<envVars, historyVars, fs, exitCode, log, fetchVars,
                   selectedAsset, dlVars>>

\* One turn of the loop: await fs.copy(sourcePath, targetPath)
ExCopy ==
    /\ pc = "ex_copy"
    /\ ex.i <= Len(ex.files)
    /\ LET file == ex.files[ex.i]
           r == Copy(fs, ex.jswasmPath \o <<file>>, JswasmDestDir \o <<file>>)
       IN  IF r.ok
           THEN /\ fs' = r.fs
                /\ log' = Append(log, Line("Copied: "))
                /\ ex' = [ex EXCEPT !.i = @ + 1]
                /\ pc' = pc
           ELSE ExCatch(r.fs)
    /\ UNCHANGED <<envVars, historyVars, exitCode, fetchVars, selectedAsset,
                   dlVars>>

\* After the loop: await fs.remove(tempDir); return true
ExCleanup ==
    /\ pc = "ex_copy"
    /\ ex.i > Len(ex.files)
    /\ fs' = Remove(fs, TempDir)
    /\ log' = Append(log, Line("Cleaned up temporary directory: "))
    /\ ex' = [ex EXCEPT !.returned = TRUE, !.result = TRUE]
    /\ pc' = "ex_returned"
    /\ UNCHANGED <<envVars, historyVars, exitCode, fetchVars, selectedAsset,
                   dlVars>>

\* main() after extractWasmFiles returned: one of two lines is logged, main
\* returns and the process ends with status 0.
MainAfterExtract ==
    /\ pc = "ex_returned"
    /\ log' = Append(log,
                IF ex.result
                THEN Line("Successfully downloaded and extracted the WASM build to: ")
                ELSE Line("Extraction failed. The zip file may be corrupted or incompatible."))
    /\ pc' = "exited"
    /\ exitCode' = 0
    /\ UNCHANGED <<envVars, historyVars, fs, fetchVars, selectedAsset,
                   dlVars, ex>>

\* ------------------------------------------------------------ the next run
\* The tool is run again: a new process over the file system the last left.
Restart ==
    /\ pc = "exited"
    /\ runs < MaxRuns
    /\ runs' = runs + 1
    /\ fs0' = fs
    /\ prevFull' = ex.returned
    /\ pc' = "start"
    /\ exitCode' = 0
    /\ log' = <<>>
    /\ fetch' = FetchIdle
    /\ fetchP' = Pending
    /\ selectedAsset' = NoAsset
    /\ dl' = DlIdle
    /\ dlP' = Pending
    /\ unlinkPending' = FALSE
    /\ ex' = ExIdle
    /\ UNCHANGED <<envVars, fs>>

Next ==
    \/ MainStart \/ FetchRequestError \/ FetchResponse \/ FetchData
    \/ FetchEnd \/ FetchAborted \/ MainCatch \/ MainNoAssets \/ MainNoWasm \/ MainDownload
    \/ DlRequestError \/ DlRedirect \/ DlBadStatus \/ DlOk \/ DlData
    \/ DlFinish \/ DlWriteError \/ DlAborted \/ UnlinkDone
    \/ ExEnsureTemp \/ ExUnzip \/ ExFind \/ ExNotFound \/ ExEnsureDest
    \/ ExReaddir \/ ExCopy \/ ExCleanup \/ MainAfterExtract \/ Restart

Spec == Init /\ [][Next]_vars

\* The same program under a scheduling that never stops while a step is
\* possible: the event loop runs every callback whose event has arrived, and
\* the server and the streams deliver some event as long as one can come.
FairSpec == Spec /\ WF_vars(Next)

\* ------------------------------------------------------------------ claims
\* The name ends in '-wasm.zip', spelt out token by token.
HasWasmSuffix(name) ==
    /\ Len(name) >= 2
    /\ name[Len(name) - 1] = "-wasm"
    /\ name[Len(name)] = ".zip"
\* The indices of the matching assets of a release document.
Matching(doc) ==
    IF doc.hasAssets
    THEN {i \in 1..Len(doc.assets) : HasWasmSuffix(doc.assets[i].name)}
    ELSE {}
Exited == pc = "exited"
Last(s) == s[Len(s)]

\* C1: downloadFile issues at most two GET requests per call, the initial
\* one and one for the Location of a 3xx response; a second 3xx response is
\* not followed.
C1_AtMostOneRedirect == dl.gets <= 2

\* The content of the target file of downloadFile, <<>> when there is none.
TargetExists == IsFile(fs, ZipPath(selectedAsset))
\* C2: once downloadFile has settled, the target file exists, with the
\* complete body of the final response, if and only if the promise resolved;
\* after a rejection no file is left at the target path.
C2_FileIffSuccess ==
    /\ dlP.state = "resolved" =>
          TargetExists /\ fs[ZipPath(selectedAsset)].data = served
    /\ dlP.state = "rejected" => ~TargetExists

\* C3: whenever extractWasmFiles has returned, true or false, the directory
\* temp-extract does not exist.
C3_TempRemovedOnReturn == ex.returned => TempDir \notin DOMAIN fs

\* A step of the pipeline failed: the fetch, the download or the extraction.
StepFailed ==
    \/ fetchP.state = "rejected"
    \/ dlP.state = "rejected"
    \/ ex.returned /\ ~ex.result
\* C4: the process exits with status 0 only when every step succeeded; a run
\* in which a step failed ends with a status other than 0.
C4_ExitZeroOnlyOnSuccess == Exited => (exitCode = 0 <=> ~StepFailed)

FirstMatch(doc) == CHOOSE i \in Matching(doc) : \A j \in Matching(doc) : i <= j
\* C6: the asset downloaded is the matching asset with the smallest index in
\* the release's list: it is the selected asset, the initial request goes to
\* its URL and the target file bears its name.
C6_FirstMatchSelected ==
    dl.gets >= 1 =>
        /\ Matching(fetchP.value) # {}
        /\ selectedAsset = fetchP.value.assets[FirstMatch(fetchP.value)]
        /\ dl.first.url =
              fetchP.value.assets[FirstMatch(fetchP.value)].browser_download_url
        /\ TargetExists =>
              ZipPath(selectedAsset) =
                 <<fetchP.value.assets[FirstMatch(fetchP.value)].name>>
\* A download is under way for a list with two matching assets, the first of
\* them not at the head of the list.
C6_Witness ==
    /\ dl.gets >= 1
    /\ Cardinality(Matching(fetchP.value)) = 2
    /\ FirstMatch(fetchP.value) > 1

\* What the 'end' listener must do with the response in fetch.
SettledByResponse(p) ==
    LET parsed == JSONParse(fetch.data, latest)
    IN  CASE fetch.statusCode = 200 /\ parsed.ok ->
                p.state = "resolved" /\ p.value = parsed.value
          [] fetch.statusCode = 200 /\ ~parsed.ok ->
                p.state = "rejected" /\ p.error.text = "Failed to parse response"
          [] fetch.statusCode = 403 /\ fetch.ratelimit = "0" ->
                p.state = "rejected" /\ p.error = Err(RateLimitText, 0, "")
          [] OTHER ->
                /\ p.state = "rejected"
                /\ p.error.text = "API request failed with status code"
                /\ p.error.status = fetch.statusCode
                /\ p.error.detail = IF parsed.ok THEN parsed.value.message ELSE ""
ServedEntries == Unzip(served).entries
JswasmDirs == {e[1] : e \in {x \in ServedEntries : x[2] = "dir" /\ Last(x[1]) = Jswasm}}
\* Every entry below directory d of the archive is below the destination's
\* jswasm directory, under the same relative name and with the same content.
CopiedFrom(d) ==
    \A e \in ServedEntries :
        (IsPrefix(d, e[1]) /\ Len(e[1]) > Len(d)) =>
            LET t == JswasmDestDir \o SubSeq(e[1], Len(d) + 1, Len(e[1]))
            IN  t \in DOMAIN fs /\ fs[t].kind = e[2] /\ fs[t].data = e[3]
\* The directory findJswasmDirectory returned, as a path of the archive.
Located == SubSeq(ex.jswasmPath, Len(TempDir) + 1, Len(ex.jswasmPath))

C9_ArchiveTransient == ex.returned => ~TargetExists

\* C10: a run of the whole pipeline leaves no temp-extract directory, and a
\* run after another over the same release and archive leaves the file
\* system as it found it.
C10_IdempotentRerun ==
    (Exited /\ ex.returned) =>
        /\ TempDir \notin DOMAIN fs
        /\ prevFull => fs = fs0
\* The part of C10 about the destination alone.
IdempotentOverwrite == (Exited /\ ex.returned /\ prevFull) => fs = fs0

\* ---------------------------------------------------- findJswasmDirectory
\* The directories below root, and those of them named exactly 'jswasm'.
DirsBelow(f, root) ==
    {q \in DOMAIN f : IsDir(f, q) /\ IsPrefix(root, q) /\ Len(q) > Len(root)}
JswasmBelow(f, root) == {q \in DirsBelow(f, root) : Last(q) = Jswasm}
\* The place of a name in a listing.
ListingIndex(n) == CHOOSE i \in 1..Len(ListingOrder) : ListingOrder[i] = n
\* A depth-first traversal in listing order meets q before r: q is an
\* ancestor of r, or at the first name where they part q's comes first.
MetBefore(q, r) ==
    \/ IsPrefix(q, r) /\ q # r
    \/ \E k \in 1..Len(q) :
          /\ k <= Len(r)
          /\ SubSeq(q, 1, k - 1) = SubSeq(r, 1, k - 1)
          /\ q[k] # r[k]
          /\ ListingIndex(q[k]) < ListingIndex(r[k])
FirstMet(S) == CHOOSE q \in S : \A r \in S \ {q} : MetBefore(q, r)
Parent(q) == SubSeq(q, 1, Len(q) - 1)
\* findJswasmDirectory(tempDir) has just returned: its result is in
\* ex.jswasmPath and the tree it searched is still in fs.
Searched == pc \in {"ex_ensureDest", "ex_notFound"}

\* C11, as claimed: findJswasmDirectory(root) returns null exactly when no
\* directory named 'jswasm' is below root, and otherwise the first such
\* directory that a depth-first traversal in listing order meets.
C11_FirstJswasmDepthFirst ==
    Searched =>
        LET found == JswasmBelow(fs, TempDir)
        IN  /\ ex.jswasmPath = Null <=> found = {}
            /\ found # {} => ex.jswasmPath = FirstMet(found)
\* C11, amended: findJswasmDirectory(root) returns null exactly when no
\* directory named 'jswasm' is below root; otherwise it returns the 'jswasm'
\* child of the first directory, root included, that a depth-first traversal
\* in listing order meets and that has a child directory named 'jswasm'.  It
\* is the first 'jswasm' directory met when none of the directories met
\* earlier is beside another 'jswasm' directory.
C11_FirstParentOfJswasm ==
    Searched =>
        LET found == JswasmBelow(fs, TempDir)
            parents == {Parent(q) : q \in found}
        IN  /\ ex.jswasmPath = Null <=> found = {}
            /\ found # {} => ex.jswasmPath = FirstMet(parents) \o <<Jswasm>>
            /\ Cardinality(found) = 1 => ex.jswasmPath = FirstMet(found)
\* The search returned <root>/jswasm although <root>/a/jswasm comes first in
\* a depth-first traversal.
C11_Witness ==
    /\ Searched
    /\ ex.jswasmPath = TempDir \o <<Jswasm>>
    /\ IsDir(fs, TempDir \o <<a, Jswasm>>)

\* ----------------------------------------------------------- downloadFile
\* C12: every call of downloadFile eventually settles: from the moment its
\* request is issued the promise is resolved or rejected at some later
\* moment, whatever the server and the streams do.
C12_DownloadSettles ==
    (dl.phase = "requested") ~> (dlP.state # "pending")

====
